---- MODULE Spec2Model ----
(***************************************************************************)
(* State-machine model of the TableGrid PCF control                        *)
(* (src/TableGrid/CustomTable.tsx): the CustomTable React component (view  *)
(* window derivation, filter popup, column resize) and the TableGrid       *)
(* control class behind it (pagination cursor, sort cycling, refresh,      *)
(* selection outputs), together with the host dataset they talk to.        *)
(*                                                                         *)
(* Strings whose characters matter (cell values, filter values) are        *)
(* sequences of one-character strings; names that are only compared for    *)
(* equality (column names, record ids, operators) are plain strings.       *)
(***************************************************************************)
EXTENDS Integers, Sequences, FiniteSets, TLC

VARIABLES
    dataset,            \* host: context.parameters.records (columns, records, sortedRecordIds, sorting, paging)
    parameters,         \* host: the other context.parameters (isTableRefresh, SelectionMode, isLink)
    this,               \* the fields of the TableGrid instance
    props,              \* the GridProps of the last root.render
    columnFilters,      \* useState: Map columnName -> ColumnFilter
    openFilterColumn,   \* useState: column whose popup is open, or Null
    tempFilterOperator, \* useState
    tempFilterValue,    \* useState
    columnWidths,       \* useState: Map columnName -> width
    resizingColumn,     \* useState: column being resized, or Null
    resizeStartX,       \* useState
    resizeStartWidth,   \* useState
    displayRecordIds,   \* useMemo: the ids rendered as rows
    effectPending,      \* the [isTableRefresh] effect is scheduled after the last commit
    timers,             \* pending setTimeout callbacks (column names to sort)
    selectedItems,      \* useTableSelection: the selected row ids, in insertion order
    cell,               \* a rendered body cell: column name, value and status badge
    document,           \* the resize listeners registered on document, and body.style
    calls,              \* host calls issued by the last handler
    lastOp,             \* the last handler that ran
    lastArg             \* the argument the last handler was called with, or Null

hostVars  == <<dataset, parameters>>
popupVars == <<openFilterColumn, tempFilterOperator, tempFilterValue>>
resizeVars == <<resizingColumn, resizeStartX, resizeStartWidth>>
compVars  == <<columnFilters, popupVars, columnWidths, resizeVars>>
vars == <<dataset, parameters, this, props, columnFilters, openFilterColumn,
          tempFilterOperator, tempFilterValue, columnWidths, resizingColumn,
          resizeStartX, resizeStartWidth, displayRecordIds, effectPending,
          timers, selectedItems, cell, document, calls, lastOp, lastArg>>

Null == "null"

\* no body cell is under consideration
NoCell == [columnName |-> <<>>, cellValue |-> <<>>, badge |-> <<>>]

\* the document before any resize: no listener of the component, no inline style
NoListeners == [mousemove |-> 0, mouseup |-> 0, cursor |-> "", userSelect |-> ""]

\* an effect that registers and never cleans up
ListenerEffectWithoutCleanup(doc, before, after) ==
    IF after # Null /\ before = Null
    THEN [mousemove |-> doc.mousemove + 1, mouseup |-> doc.mouseup + 1,
          cursor |-> "col-resize", userSelect |-> "none"]
    ELSE doc

\* the listener effect (302-316) at a commit that takes resizingColumn from
\* `before` to `after`: the cleanup of the previous run, then the new run
ListenerEffect(doc, before, after) ==
    LET cleaned == IF before # Null
                   THEN [mousemove |-> doc.mousemove - 1, mouseup |-> doc.mouseup - 1,
                         cursor |-> "", userSelect |-> ""]
                   ELSE doc
    IN  IF after # Null
        THEN [mousemove |-> cleaned.mousemove + 1, mouseup |-> cleaned.mouseup + 1,
              cursor |-> "col-resize", userSelect |-> "none"]
        ELSE cleaned

(***************************************************************************)
(* Bounds of the model.                                                    *)
(***************************************************************************)
MaxIds      == 3    \* number of record ids of the view-derivation harness
MaxPage     == 2    \* largest page cursor explored
MaxPageSize == 2    \* largest recordsPerPage of the view-derivation harness
MaxTimers   == 1    \* most setTimeout callbacks pending at once
MaxWidth    == 250  \* widest column explored

(***************************************************************************)
(* Strings.                                                                *)
(***************************************************************************)
\* String.prototype.toLowerCase on one character
LowerChar(ch) ==
    LET upper == <<"A", "B", "C", "D", "E", "F", "G", "H", "I", "J", "K", "L", "M", "N", "O", "P", "Q", "R", "S", "T", "U", "V", "W", "X", "Y", "Z">>
        lower == <<"a", "b", "c", "d", "e", "f", "g", "h", "i", "j", "k", "l", "m", "n", "o", "p", "q", "r", "s", "t", "u", "v", "w", "x", "y", "z">>
        hits  == {i \in 1..26 : upper[i] = ch}
    IN  IF hits = {} THEN ch ELSE lower[CHOOSE i \in hits : TRUE]

\* String.prototype.toLowerCase
toLowerCase(s) == [i \in 1..Len(s) |-> LowerChar(s[i])]

\* s.startsWith(t, from): t occurs in s at 0-based position from
MatchAt(s, t, from) ==
    /\ from + Len(t) <= Len(s)
    /\ \A k \in 1..Len(t) : s[from + k] = t[k]

RECURSIVE IndexOfFrom(_, _, _)
\* String.prototype.indexOf: left-to-right scan, -1 when not found
IndexOfFrom(s, t, from) ==
    IF from + Len(t) > Len(s) THEN -1
    ELSE IF MatchAt(s, t, from) THEN from
    ELSE IndexOfFrom(s, t, from + 1)

includes(s, t)   == IndexOfFrom(s, t, 0) # -1
startsWith(s, t) == MatchAt(s, t, 0)
endsWith(s, t)   == Len(t) <= Len(s) /\ MatchAt(s, t, Len(s) - Len(t))

(***************************************************************************)
(* Records of the dataset.  A record is a function from the columns it has *)
(* a value for to that value; getFormattedValue of any other column is     *)
(* undefined.                                                              *)
(***************************************************************************)
Undefined == <<"undefined">>

getFormattedValue(record, columnName) ==
    IF columnName \in DOMAIN record THEN record[columnName] ELSE Undefined

\* String(value || '')
StringOrEmpty(value) == IF value = Undefined \/ value = <<>> THEN <<>> ELSE value

(***************************************************************************)
(* displayRecordIds (CustomTable.tsx 174-236).                             *)
(***************************************************************************)
\* FilterMatches with the negation of 'Does not contain' dropped
FilterMatchesNoNegation(columnName, filter, record) ==
    LET value       == getFormattedValue(record, columnName)
        filterValue == toLowerCase(filter.value)
        recordValue == toLowerCase(StringOrEmpty(value))
    IN  CASE filter.operator = "Equals"      -> recordValue = filterValue
          [] filter.operator = "Starts with" -> startsWith(recordValue, filterValue)
          [] filter.operator = "Ends with"   -> endsWith(recordValue, filterValue)
          [] OTHER                           -> includes(recordValue, filterValue)

\* one iteration of the loop over columnFilters.entries(): the switch on filter.operator
FilterMatches(columnName, filter, record) ==
    LET value       == getFormattedValue(record, columnName)
        filterValue == toLowerCase(filter.value)
        recordValue == toLowerCase(StringOrEmpty(value))
    IN  CASE filter.operator = "Contains"         -> includes(recordValue, filterValue)
          [] filter.operator = "Equals"           -> recordValue = filterValue
          [] filter.operator = "Starts with"      -> startsWith(recordValue, filterValue)
          [] filter.operator = "Ends with"        -> endsWith(recordValue, filterValue)
          [] filter.operator = "Does not contain" -> ~includes(recordValue, filterValue)
          [] OTHER                                -> includes(recordValue, filterValue)

RECURSIVE FilterLoop(_, _, _)
\* for (const [columnName, filter] of columnFilters.entries()) { ... if (!matches) return false }
FilterLoop(filters, keys, record) ==
    IF keys = {} THEN TRUE
    ELSE LET columnName == CHOOSE k \in keys : TRUE
         IN  IF ~FilterMatches(columnName, filters[columnName], record)
             THEN FALSE
             ELSE FilterLoop(filters, keys \ {columnName}, record)

\* KeepId without the "if (!record) return false" guard: a missing record is
\* matched as a record whose cells are empty
KeepIdMissingAsEmpty(records, filters, id) ==
    FilterLoop(filters, DOMAIN filters, IF id \in DOMAIN records THEN records[id] ELSE <<>>)

\* the callback of sortedRecordIds.filter
KeepId(records, filters, id) ==
    IF id \notin DOMAIN records THEN FALSE
    ELSE FilterLoop(filters, DOMAIN filters, records[id])

RECURSIVE ArrayFilterReversed(_, _, _)
\* ArrayFilter collecting the kept ids in reverse order
ArrayFilterReversed(ids, records, filters) ==
    IF ids = <<>> THEN <<>>
    ELSE LET rest == ArrayFilterReversed(Tail(ids), records, filters)
         IN  IF KeepId(records, filters, Head(ids)) THEN rest \o <<Head(ids)>> ELSE rest

RECURSIVE ArrayFilter(_, _, _)
\* Array.prototype.filter with the callback KeepId
ArrayFilter(ids, records, filters) ==
    IF ids = <<>> THEN <<>>
    ELSE LET rest == ArrayFilter(Tail(ids), records, filters)
         IN  IF KeepId(records, filters, Head(ids)) THEN <<Head(ids)>> \o rest ELSE rest

\* filteredIds
FilteredIds(sortedRecordIds, records, filters) ==
    IF Cardinality(DOMAIN filters) > 0
    THEN ArrayFilter(sortedRecordIds, records, filters)
    ELSE sortedRecordIds

Min(a, b) == IF a < b THEN a ELSE b
Max(a, b) == IF a > b THEN a ELSE b

\* Array.prototype.slice(start, end) for start, end >= 0
ArraySlice(arr, start, end) ==
    LET from == Min(start, Len(arr))
        to   == Min(end, Len(arr))
    IN  IF from >= to THEN <<>> ELSE SubSeq(arr, from + 1, to)

\* DisplayRecordIds with startIndex = currentPage * recordsPerPage
DisplayRecordIdsOffByOnePage(sortedRecordIds, records, filters, currentPage, recordsPerPage) ==
    LET filteredIds == FilteredIds(sortedRecordIds, records, filters)
        startIndex  == currentPage * recordsPerPage
        endIndex    == startIndex + recordsPerPage
    IN  ArraySlice(filteredIds, startIndex, endIndex)

\* the whole memo
DisplayRecordIds(sortedRecordIds, records, filters, currentPage, recordsPerPage) ==
    LET filteredIds == FilteredIds(sortedRecordIds, records, filters)
        startIndex  == (currentPage - 1) * recordsPerPage
        endIndex    == startIndex + recordsPerPage
    IN  ArraySlice(filteredIds, startIndex, endIndex)

(***************************************************************************)
(* The TableGrid control class (CustomTable.tsx 809-1327).  A handler is   *)
(* an operator on st = [this, dataset, calls]: the instance, the host      *)
(* dataset it reads and writes, and the host calls it has issued.          *)
(***************************************************************************)
pageSize == 10

Range(f) == {f[i] : i \in DOMAIN f}

NoCalls == [loadNextPage |-> 0, loadPreviousPage |-> 0, reset |-> 0,
            refresh |-> 0, notifyOutputChanged |-> 0]

Call(c, name) == [c EXCEPT ![name] = @ + 1]

\* Math.ceil(n / d) for n >= 0, d > 0
Ceil(n, d) == (n + d - 1) \div d

\* const totalPages = this.totalRecordCount > 0 ? Math.ceil(...) : 1
totalPages(t) ==
    IF t.totalRecordCount > 0 THEN Ceil(t.totalRecordCount, t.pageSize) ELSE 1

\* onSort toggling a descending column back to ascending instead of clearing it
onSortTwoState(st, columnName) ==
    LET t == st.this
        sameColumn == t.currentSortColumn = columnName
        newSortDirection == IF sameColumn /\ t.currentSortDirection = 1 THEN -1 ELSE 1
        t1 == [t EXCEPT !.currentSortColumn = columnName,
                        !.currentSortDirection = newSortDirection]
    IN  IF columnName \in {st.dataset.columns[i] : i \in DOMAIN st.dataset.columns}
        THEN [this    |-> [t1 EXCEPT !.currentPage = 1],
              dataset |-> [st.dataset EXCEPT !.sorting =
                              <<[name |-> columnName, sortDirection |-> newSortDirection]>>],
              calls   |-> [st.calls EXCEPT !.reset = @ + 1, !.refresh = @ + 1]]
        ELSE [st EXCEPT !.this = t1]

(* onSort (934-991) *)
onSort(st, columnName) ==
    LET t == st.this
        sameColumn == t.currentSortColumn = columnName
        newSortDirection ==
            IF sameColumn
            THEN IF t.currentSortDirection = 1 THEN -1
                 ELSE IF t.currentSortDirection = -1 THEN 0
                 ELSE 1
            ELSE 1
        newSortColumn ==
            IF sameColumn
            THEN IF t.currentSortDirection = -1 THEN Null ELSE t.currentSortColumn
            ELSE columnName
        t1 == [t EXCEPT !.currentSortColumn = newSortColumn,
                        !.currentSortDirection = newSortDirection]
        column == columnName \in Range(st.dataset.columns)
    IN  IF column
        THEN [this    |-> [t1 EXCEPT !.currentPage = 1],
              dataset |-> [st.dataset EXCEPT !.sorting =
                              IF newSortDirection = 0 THEN <<>>
                              ELSE <<[name |-> columnName, sortDirection |-> newSortDirection]>>],
              calls   |-> Call(Call(st.calls, "reset"), "refresh")]
        ELSE [st EXCEPT !.this = t1]

RECURSIVE LastLoop(_, _)
\* while (paging.hasNextPage && pagesLoaded < 100) { paging.loadNextPage(); pagesLoaded++; }
\* pagesAhead: the number of loadNextPage calls after which the host reports
\* hasNextPage = false; -1 when it keeps reporting true.
LastLoop(pagesAhead, pagesLoaded) ==
    IF pagesAhead # 0 /\ pagesLoaded < 100
    THEN LastLoop(IF pagesAhead > 0 THEN pagesAhead - 1 ELSE pagesAhead, pagesLoaded + 1)
    ELSE pagesLoaded

\* n calls of the same host method
CallTimes(c, name, n) == [c EXCEPT ![name] = @ + n]

\* onNavigate whose 'last' loop runs one turn past the limit of 100
onNavigateOneMoreTurn(st, direction, pagesAhead) ==
    LET t == st.this
        paging == st.dataset.paging
        hasNext == paging.hasNextPage
        hasPrevious == t.currentPage > 1
    IN  CASE direction = "next" ->
                IF hasNext
                THEN [st EXCEPT !.calls = Call(@, "loadNextPage"),
                                !.this.currentPage = @ + 1]
                ELSE st
          [] direction = "previous" ->
                IF hasPrevious
                THEN [st EXCEPT !.calls = Call(@, "loadPreviousPage"),
                                !.this.currentPage = @ - 1]
                ELSE st
          [] direction = "first" ->
                IF t.currentPage # 1
                THEN [st EXCEPT !.calls = Call(@, "reset"),
                                !.this.currentPage = 1]
                ELSE st
          [] direction = "last" ->
                LET lastPage == totalPages(t)
                    pagesLoaded == LastLoop(IF hasNext THEN pagesAhead ELSE 0, -1) + 1
                IN  [st EXCEPT !.calls = CallTimes(@, "loadNextPage", pagesLoaded),
                               !.dataset.paging.hasNextPage =
                                   hasNext /\ (pagesAhead = -1 \/ pagesAhead > pagesLoaded),
                               !.this.currentPage = lastPage]

(* onNavigate (863-929) *)
onNavigate(st, direction, pagesAhead) ==
    LET t == st.this
        paging == st.dataset.paging
        hasNext == paging.hasNextPage
        hasPrevious == t.currentPage > 1
    IN  CASE direction = "next" ->
                IF hasNext
                THEN [st EXCEPT !.calls = Call(@, "loadNextPage"),
                                !.this.currentPage = @ + 1]
                ELSE st
          [] direction = "previous" ->
                IF hasPrevious
                THEN [st EXCEPT !.calls = Call(@, "loadPreviousPage"),
                                !.this.currentPage = @ - 1]
                ELSE st
          [] direction = "first" ->
                IF t.currentPage # 1
                THEN [st EXCEPT !.calls = Call(@, "reset"),
                                !.this.currentPage = 1]
                ELSE st
          [] direction = "last" ->
                LET lastPage == totalPages(t)
                    pagesLoaded == LastLoop(IF hasNext THEN pagesAhead ELSE 0, 0)
                IN  [st EXCEPT !.calls = CallTimes(@, "loadNextPage", pagesLoaded),
                               !.dataset.paging.hasNextPage =
                                   hasNext /\ (pagesAhead = -1 \/ pagesAhead > pagesLoaded),
                               !.this.currentPage = lastPage]

\* one element of recordsToJson: { recordId: id, [column.name]: formatted value, ... }
RecordData(id, record, columns) ==
    [recordId |-> id,
     data     |-> [c \in Range(columns) |-> getFormattedValue(record, c)]]

\* convertRecordsToJson (1092-1113) throws a TypeError at record.getFormattedValue
\* when records[id] is undefined and there is a column to read
ConvertThrows(sortedRecordsIds, records, columns) ==
    /\ columns # <<>>
    /\ \E i \in 1..Len(sortedRecordsIds) : sortedRecordsIds[i] \notin DOMAIN records

convertRecordsToJson(sortedRecordsIds, records, columns) ==
    [i \in 1..Len(sortedRecordsIds) |->
        RecordData(sortedRecordsIds[i],
                   IF sortedRecordsIds[i] \in DOMAIN records
                   THEN records[sortedRecordsIds[i]] ELSE <<>>,
                   columns)]

\* this.recordsToJson.find(rec => rec.recordId === id): <<rec>>, or <<>> for undefined
FindRecord(json, id) ==
    LET hits == {i \in 1..Len(json) : json[i].recordId = id}
    IN  IF hits = {} THEN <<>>
        ELSE <<json[CHOOSE i \in hits : \A j \in hits : i <= j]>>

RECURSIVE SelectedObjects(_, _)
\* selectedIds.forEach(id => { find; if (selectedRecord) push })
SelectedObjects(selectedIds, json) ==
    IF selectedIds = <<>> THEN <<>>
    ELSE FindRecord(json, Head(selectedIds)) \o SelectedObjects(Tail(selectedIds), json)

\* onSelectionChange keeping the previous selection and adding the reported ids
onSelectionChangeMerging(st, selectedIds) ==
    LET t == st.this
        json == IF t.recordsToJson = <<>> THEN <<>> ELSE t.recordsToJson[1]
    IN  [st EXCEPT !.this.selectedRecordIds = @ \o selectedIds,
                   !.this.selectedRecordObjects = @ \o SelectedObjects(selectedIds, json),
                   !.calls = Call(@, "notifyOutputChanged")]

(* onSelectionChange (996-1034) *)
onSelectionChange(st, selectedIds) ==
    LET t == st.this
        objects ==
            IF Len(selectedIds) > 0 /\ t.recordsToJson # <<>>
            THEN SelectedObjects(selectedIds, t.recordsToJson[1])
            ELSE <<>>
    IN  [st EXCEPT !.this.selectedRecordIds = selectedIds,
                   !.this.selectedRecordObjects = objects,
                   !.calls = Call(@, "notifyOutputChanged")]

\* onLinkClick pushing the clicked record instead of replacing the list
onLinkClickAppending(st, recordId) ==
    LET t == st.this
        clickedRecord == IF t.recordsToJson = <<>> THEN <<>>
                         ELSE FindRecord(t.recordsToJson[1], recordId)
    IN  IF clickedRecord # <<>>
        THEN [st EXCEPT !.this.selectedLinkRecords = @ \o clickedRecord,
                        !.calls = Call(@, "notifyOutputChanged")]
        ELSE st

(* onLinkClick (1040-1065) *)
onLinkClick(st, recordId) ==
    IF st.this.recordsToJson # <<>>
    THEN LET clickedRecord == FindRecord(st.this.recordsToJson[1], recordId)
         IN  IF clickedRecord # <<>>
             THEN [st EXCEPT !.this.selectedLinkRecords = clickedRecord,
                             !.calls = Call(@, "notifyOutputChanged")]
             ELSE st
    ELSE st

\* getOutputs (1290-1314): the lists behind the two JSON outputs
getOutputs(t) ==
    [SelectedRecordIds   |-> t.selectedRecordObjects,
     SelectedLinkRecords |-> t.selectedLinkRecords]

(* updateView (1130-1284), up to and including convertRecordsToJson; the   *)
(* result carries threw = TRUE when convertRecordsToJson raised, in which  *)
(* case nothing after line 1211 has run.                                   *)
updateViewClass(st, params) ==
    LET isTableRefresh == params.isTableRefresh = TRUE
        doReset == isTableRefresh /\ ~st.this.previousRefreshValue
        \* 1137-1162
        t1 == IF doReset
              THEN [st.this EXCEPT !.selectedRecordIds = <<>>,
                                   !.selectedRecordObjects = <<>>,
                                   !.selectedLinkRecords = <<>>,
                                   !.currentPage = 1,
                                   !.currentSortColumn = Null,
                                   !.currentSortDirection = 1]
              ELSE st.this
        d1 == IF doReset THEN [st.dataset EXCEPT !.sorting = <<>>] ELSE st.dataset
        c1 == IF doReset
              THEN Call(Call(Call(st.calls, "reset"), "refresh"), "notifyOutputChanged")
              ELSE st.calls
        \* 1165, 1181-1182
        t2 == [t1 EXCEPT !.previousRefreshValue = isTableRefresh,
                         !.records = d1.records,
                         !.sortedRecordsIds = d1.sortedRecordIds]
        \* 1189-1200
        pagingTotalCount == d1.paging.totalResultCount
        t3 == [t2 EXCEPT !.totalRecordCount =
                  IF pagingTotalCount >= 0 THEN pagingTotalCount
                  ELSE IF d1.paging.hasNextPage
                       THEN (t2.currentPage * t2.pageSize) + t2.pageSize
                       ELSE (t2.currentPage - 1) * t2.pageSize + Len(t2.sortedRecordsIds)]
        threw == ConvertThrows(t3.sortedRecordsIds, t3.records, d1.columns)
        \* 1211
        t4 == IF threw THEN t3
              ELSE [t3 EXCEPT !.recordsToJson =
                       <<convertRecordsToJson(t3.sortedRecordsIds, t3.records, d1.columns)>>]
    IN  [this |-> t4, dataset |-> d1, calls |-> c1, threw |-> threw]

\* the props of root.render (1256-1280)
RenderProps(t, d, params) ==
    [columns         |-> d.columns,
     records         |-> t.records,
     sortedRecordIds |-> t.sortedRecordsIds,
     hasNextPage     |-> d.paging.hasNextPage,
     hasPreviousPage |-> t.currentPage > 1,
     currentPage     |-> t.currentPage,
     recordsPerPage  |-> t.pageSize,
     sortColumn      |-> t.currentSortColumn,
     sortDirection   |-> t.currentSortDirection,
     isTableRefresh  |-> params.isTableRefresh = TRUE,
     \* 1220-1230: Number(SelectionMode?.raw ?? 1); undefined for 0
     selectionMode   |-> IF params.SelectionMode = 0 THEN Null
                         ELSE IF params.SelectionMode = 1 THEN "single"
                         ELSE "multiselect",
     isLink          |-> params.isLink = TRUE]

(***************************************************************************)
(* The host: the dataset and parameters it hands to the control.           *)
(***************************************************************************)
ColumnNames == {"Name", "Status"}
HostColumns == {<<"Name", "Status">>, <<"Name">>}

RecordR1 == [c \in {"Name", "Status"} |-> IF c = "Name" THEN <<"A", "b">> ELSE <<"a">>]
RecordR2 == [c \in {"Name"} |-> <<"b">>]

\* the record sets the host serves: none, two records, and a sorted id
\* whose record is absent from the record store
DataNone == [sortedRecordIds |-> <<>>, records |-> <<>>]
DataTwo ==
    [sortedRecordIds |-> <<"r1", "r2">>,
     records |-> [id \in {"r1", "r2"} |-> IF id = "r1" THEN RecordR1 ELSE RecordR2]]
DataMissing ==
    [sortedRecordIds |-> <<"r1", "r2">>,
     records |-> [id \in {"r1"} |-> RecordR1]]

PagesAhead == {-1, 1, 2}

InitThis ==
    [currentPage |-> 1, pageSize |-> pageSize, totalRecordCount |-> 0,
     currentSortColumn |-> Null, currentSortDirection |-> 1,
     selectedRecordIds |-> <<>>, selectedRecordObjects |-> <<>>,
     recordsToJson |-> <<>>, previousRefreshValue |-> FALSE,
     selectedLinkRecords |-> <<>>, records |-> <<>>, sortedRecordsIds |-> <<>>,
     root |-> FALSE]

\* before the first root.render there is no component
NoProps ==
    [columns |-> <<>>, records |-> <<>>, sortedRecordIds |-> <<>>,
     hasNextPage |-> FALSE, hasPreviousPage |-> FALSE, currentPage |-> 1,
     recordsPerPage |-> pageSize, sortColumn |-> Null, sortDirection |-> 1,
     isTableRefresh |-> FALSE, selectionMode |-> "single", isLink |-> FALSE]

InitComponent ==
    /\ columnFilters = <<>>
    /\ openFilterColumn = Null
    /\ tempFilterOperator = "Contains"
    /\ tempFilterValue = <<>>
    /\ columnWidths = <<>>
    /\ resizingColumn = Null
    /\ resizeStartX = 0
    /\ resizeStartWidth = 0

InitOver(env) ==
    /\ \E cols \in env.columns, data \in env.data, total \in env.totals, next \in env.next :
          dataset = [columns |-> cols, records |-> data.records,
                     sortedRecordIds |-> data.sortedRecordIds, sorting |-> <<>>,
                     paging |-> [hasNextPage |-> next, totalResultCount |-> total]]
    /\ \E mode \in env.modes, link \in env.links :
          parameters = [isTableRefresh |-> FALSE, SelectionMode |-> mode, isLink |-> link]
    /\ this = InitThis
    /\ props = NoProps
    /\ InitComponent
    /\ displayRecordIds = <<>>
    /\ effectPending = FALSE
    /\ timers = <<>>
    /\ calls = NoCalls
    /\ lastOp = "init"
    /\ lastArg = Null
    /\ document = NoListeners
    /\ cell = NoCell
    /\ selectedItems = <<>>

\* the host loads data, changes the column set or raises/lowers isTableRefresh
HostChange(env) ==
    /\ ~effectPending
    /\ \E cols \in env.columns, data \in env.data, total \in env.totals,
          next \in env.next, refresh \in env.refresh,
          mode \in env.modes, link \in env.links :
          /\ dataset' = [dataset EXCEPT !.columns = cols, !.records = data.records,
                                        !.sortedRecordIds = data.sortedRecordIds,
                                        !.paging = [hasNextPage |-> next, totalResultCount |-> total]]
          /\ parameters' = [isTableRefresh |-> refresh, SelectionMode |-> mode,
                             isLink |-> link]
    /\ <<dataset', parameters'>> # <<dataset, parameters>>
    /\ calls' = NoCalls
    /\ lastOp' = "host"
    /\ lastArg' = Null
    /\ UNCHANGED cell
    /\ UNCHANGED selectedItems
    /\ UNCHANGED <<this, props, compVars, displayRecordIds, effectPending, timers>>
    /\ document' = ListenerEffect(document, resizingColumn, resizingColumn')

St == [this |-> this, dataset |-> dataset, calls |-> NoCalls]

Apply(r) ==
    /\ this' = r.this
    /\ dataset' = r.dataset
    /\ calls' = r.calls

\* the component is mounted and its effects have run
Interactive == this.root /\ ~effectPending

DisplayOf(p, filters) ==
    DisplayRecordIds(p.sortedRecordIds, p.records, filters, p.currentPage, p.recordsPerPage)

(* updateView (1130-1284) and the commit of the render it requests *)
UpdateView ==
    /\ ~effectPending
    /\ LET r == updateViewClass(St, parameters)
       IN  IF r.threw
           THEN /\ Apply(r)
                /\ UNCHANGED <<props, displayRecordIds, effectPending>>
           ELSE /\ this' = [r.this EXCEPT !.root = TRUE]
                /\ dataset' = r.dataset
                /\ calls' = r.calls
                /\ props' = RenderProps(r.this, r.dataset, parameters)
                \* useEffect(..., [isTableRefresh]) runs on mount and when the prop changed
                /\ effectPending' = (~this.root \/ props'.isTableRefresh # props.isTableRefresh)
                /\ displayRecordIds' = DisplayOf(props', columnFilters)
    /\ lastOp' = "updateView"
    /\ lastArg' = Null
    /\ UNCHANGED cell
    /\ UNCHANGED selectedItems
    /\ UNCHANGED <<parameters, compVars, timers>>
    /\ document' = ListenerEffect(document, resizingColumn, resizingColumn')

(* destroy (1320-1326): root.unmount() runs the cleanup of every effect and
   discards the component with its state; timers already set keep running *)
Destroy ==
    /\ ~effectPending
    /\ this.root
    /\ this' = [this EXCEPT !.root = FALSE]
    /\ props' = NoProps
    /\ columnFilters' = <<>>
    /\ openFilterColumn' = Null
    /\ tempFilterOperator' = "Contains"
    /\ tempFilterValue' = <<>>
    /\ columnWidths' = <<>>
    /\ resizingColumn' = Null
    /\ resizeStartX' = 0
    /\ resizeStartWidth' = 0
    /\ displayRecordIds' = <<>>
    /\ selectedItems' = <<>>
    /\ calls' = NoCalls
    /\ lastOp' = "destroy"
    /\ lastArg' = Null
    /\ UNCHANGED cell
    /\ UNCHANGED <<hostVars, effectPending, timers>>
    /\ document' = ListenerEffect(document, resizingColumn, resizingColumn')

(* the effect of 125-148, run after the commit *)
RefreshEffect ==
    /\ effectPending
    /\ effectPending' = FALSE
    /\ IF props.isTableRefresh
       THEN /\ columnFilters' = <<>>
            /\ openFilterColumn' = Null
            /\ tempFilterOperator' = "Contains"
            /\ tempFilterValue' = <<>>
            /\ columnWidths' = <<>>
            /\ resizingColumn' = Null
            /\ resizeStartX' = 0
            /\ resizeStartWidth' = 0
       ELSE UNCHANGED compVars
    /\ displayRecordIds' = DisplayOf(props, columnFilters')
    /\ lastOp' = "refreshEffect"
    /\ lastArg' = Null
    /\ UNCHANGED cell
    /\ UNCHANGED selectedItems
    /\ calls' = NoCalls
    /\ UNCHANGED <<hostVars, this, props, timers>>
    /\ document' = ListenerEffect(document, resizingColumn, resizingColumn')

(* a click on First / Previous / Next / Last (768-795) *)
Navigate(direction) ==
    /\ Interactive
    /\ IF direction \in {"first", "previous"} THEN props.hasPreviousPage ELSE props.hasNextPage
    /\ \E pagesAhead \in PagesAhead :
          LET r == onNavigate(St, direction, pagesAhead)
          IN  /\ r.this.currentPage <= MaxPage
              /\ Apply(r)
    /\ lastOp' = direction
    /\ lastArg' = Null
    /\ UNCHANGED cell
    /\ UNCHANGED selectedItems
    /\ UNCHANGED <<parameters, props, compVars, displayRecordIds, effectPending, timers>>
    /\ document' = ListenerEffect(document, resizingColumn, resizingColumn')

(***************************************************************************)
(* The CustomTable component: filter popup, sort buttons, column resize.   *)
(***************************************************************************)
\* Map.prototype.set / delete / get on a copied Map
MapSet(m, k, v) == [x \in DOMAIN m \cup {k} |-> IF x = k THEN v ELSE m[x]]
MapDelete(m, k) ==
    IF DOMAIN m \ {k} = {} THEN <<>> ELSE [x \in DOMAIN m \ {k} |-> m[x]]
MapHas(m, k) == k \in DOMAIN m

RECURSIVE TrimStart(_)
TrimStart(s) == IF s # <<>> /\ Head(s) = " " THEN TrimStart(Tail(s)) ELSE s
RECURSIVE TrimEnd(_)
TrimEnd(s) == IF s # <<>> /\ s[Len(s)] = " " THEN TrimEnd(SubSeq(s, 1, Len(s) - 1)) ELSE s
\* a trim that strips leading whitespace only
trimStartOnly(s) == TrimStart(s)

\* String.prototype.trim
trim(s) == TrimEnd(TrimStart(s))

\* the popup of column c is on screen
PopupShown(c) == Interactive /\ openFilterColumn = c /\ c \in Range(props.columns)

(* handleOpenFilter (239-244), from the Popover's onOpenChange *)
HandleOpenFilter(c) ==
    /\ Interactive
    /\ c \in Range(props.columns)
    /\ openFilterColumn # c
    /\ tempFilterOperator' = IF MapHas(columnFilters, c) THEN columnFilters[c].operator ELSE "Contains"
    /\ tempFilterValue' = IF MapHas(columnFilters, c) THEN columnFilters[c].value ELSE <<>>
    /\ openFilterColumn' = c
    /\ lastOp' = "openFilter"
    /\ lastArg' = Null
    /\ UNCHANGED cell
    /\ UNCHANGED selectedItems
    /\ calls' = NoCalls
    /\ UNCHANGED <<hostVars, this, props, columnFilters, columnWidths, resizeVars,
                   displayRecordIds, effectPending, timers>>
    /\ document' = ListenerEffect(document, resizingColumn, resizingColumn')

(* the Close button and the Popover's onOpenChange(open = false) (473, 499) *)
ClosePopup ==
    /\ \E c \in ColumnNames : PopupShown(c)
    /\ openFilterColumn' = Null
    /\ lastOp' = "closePopup"
    /\ lastArg' = Null
    /\ UNCHANGED cell
    /\ UNCHANGED selectedItems
    /\ calls' = NoCalls
    /\ UNCHANGED <<hostVars, this, props, columnFilters, tempFilterOperator, tempFilterValue,
                   columnWidths, resizeVars, displayRecordIds, effectPending, timers>>
    /\ document' = ListenerEffect(document, resizingColumn, resizingColumn')

(* the Dropdown's onOptionSelect (559) *)
SetTempFilterOperator(op) ==
    /\ \E c \in ColumnNames : PopupShown(c)
    /\ tempFilterOperator # op
    /\ tempFilterOperator' = op
    /\ lastOp' = "setOperator"
    /\ lastArg' = Null
    /\ UNCHANGED cell
    /\ UNCHANGED selectedItems
    /\ calls' = NoCalls
    /\ UNCHANGED <<hostVars, this, props, columnFilters, openFilterColumn, tempFilterValue,
                   columnWidths, resizeVars, displayRecordIds, effectPending, timers>>
    /\ document' = ListenerEffect(document, resizingColumn, resizingColumn')

(* the Input's onChange (574) *)
SetTempFilterValue(v) ==
    /\ \E c \in ColumnNames : PopupShown(c)
    /\ tempFilterValue # v
    /\ tempFilterValue' = v
    /\ lastOp' = "setValue"
    /\ lastArg' = Null
    /\ UNCHANGED cell
    /\ UNCHANGED selectedItems
    /\ calls' = NoCalls
    /\ UNCHANGED <<hostVars, this, props, columnFilters, openFilterColumn, tempFilterOperator,
                   columnWidths, resizeVars, displayRecordIds, effectPending, timers>>
    /\ document' = ListenerEffect(document, resizingColumn, resizingColumn')

\* handleApplyFilter treating a blank value as a request to drop the filter
HandleApplyFilterDroppingBlank ==
    /\ \E c \in ColumnNames : PopupShown(c)
    /\ IF openFilterColumn # Null /\ trim(tempFilterValue) # <<>>
       THEN columnFilters' = MapSet(columnFilters, openFilterColumn,
                                    [columnName |-> openFilterColumn,
                                     operator   |-> tempFilterOperator,
                                     value      |-> trim(tempFilterValue)])
       ELSE columnFilters' = MapDelete(columnFilters, openFilterColumn)
    /\ openFilterColumn' = Null
    /\ displayRecordIds' = DisplayOf(props, columnFilters')
    /\ lastOp' = "applyFilter"
    /\ lastArg' = openFilterColumn
    /\ UNCHANGED cell
    /\ UNCHANGED selectedItems
    /\ calls' = NoCalls
    /\ UNCHANGED <<hostVars, this, props, tempFilterOperator, tempFilterValue,
                   columnWidths, resizeVars, effectPending, timers>>
    /\ document' = ListenerEffect(document, resizingColumn, resizingColumn')

(* handleApplyFilter (247-259) *)
HandleApplyFilter ==
    /\ \E c \in ColumnNames : PopupShown(c)
    /\ IF openFilterColumn # Null /\ trim(tempFilterValue) # <<>>
       THEN columnFilters' = MapSet(columnFilters, openFilterColumn,
                                    [columnName |-> openFilterColumn,
                                     operator   |-> tempFilterOperator,
                                     value      |-> trim(tempFilterValue)])
       ELSE UNCHANGED columnFilters
    /\ openFilterColumn' = Null
    /\ displayRecordIds' = DisplayOf(props, columnFilters')
    /\ lastOp' = "applyFilter"
    /\ lastArg' = openFilterColumn
    /\ UNCHANGED cell
    /\ UNCHANGED selectedItems
    /\ calls' = NoCalls
    /\ UNCHANGED <<hostVars, this, props, tempFilterOperator, tempFilterValue,
                   columnWidths, resizeVars, effectPending, timers>>
    /\ document' = ListenerEffect(document, resizingColumn, resizingColumn')

\* a Clear that drops the filters of every column
HandleClearFilterClearingAll ==
    /\ \E c \in ColumnNames : PopupShown(c)
    /\ columnFilters' = <<>>
    /\ tempFilterValue' = <<>>
    /\ openFilterColumn' = Null
    /\ displayRecordIds' = DisplayOf(props, columnFilters')
    /\ lastOp' = "clearFilter"
    /\ lastArg' = Null
    /\ UNCHANGED cell
    /\ UNCHANGED selectedItems
    /\ calls' = NoCalls
    /\ UNCHANGED <<hostVars, this, props, tempFilterOperator,
                   columnWidths, resizeVars, effectPending, timers>>
    /\ document' = ListenerEffect(document, resizingColumn, resizingColumn')

(* handleClearFilter (262-271) *)
HandleClearFilter ==
    /\ \E c \in ColumnNames : PopupShown(c)
    /\ IF openFilterColumn # Null
       THEN columnFilters' = MapDelete(columnFilters, openFilterColumn)
       ELSE UNCHANGED columnFilters
    /\ tempFilterValue' = <<>>
    /\ openFilterColumn' = Null
    /\ displayRecordIds' = DisplayOf(props, columnFilters')
    /\ lastOp' = "clearFilter"
    /\ lastArg' = Null
    /\ UNCHANGED cell
    /\ UNCHANGED selectedItems
    /\ calls' = NoCalls
    /\ UNCHANGED <<hostVars, this, props, tempFilterOperator,
                   columnWidths, resizeVars, effectPending, timers>>
    /\ document' = ListenerEffect(document, resizingColumn, resizingColumn')

(* "Sort A to Z" onClick (512-518); sortColumn and sortDirection are the   *)
(* props of the last render                                                *)
SortAtoZ(c) ==
    /\ PopupShown(c)
    /\ LET r1 == onSort(St, c)
           r2 == IF props.sortColumn # c \/ props.sortDirection # 1 THEN onSort(r1, c) ELSE r1
       IN  Apply(r2)
    /\ openFilterColumn' = Null
    /\ lastOp' = "sortAtoZ"
    /\ lastArg' = Null
    /\ UNCHANGED cell
    /\ UNCHANGED selectedItems
    /\ UNCHANGED <<parameters, props, columnFilters, tempFilterOperator, tempFilterValue,
                   columnWidths, resizeVars, displayRecordIds, effectPending, timers>>
    /\ document' = ListenerEffect(document, resizingColumn, resizingColumn')

(* "Sort Z to A" onClick (529-537) *)
SortZtoA(c) ==
    /\ PopupShown(c)
    /\ IF props.sortColumn = c /\ props.sortDirection = 1
       THEN /\ Apply(onSort(St, c))
            /\ UNCHANGED timers
       ELSE IF props.sortColumn # c
       THEN /\ Len(timers) < MaxTimers
            /\ Apply(onSort(St, c))
            /\ timers' = Append(timers, c)
       ELSE /\ UNCHANGED <<this, dataset, timers>>
            /\ calls' = NoCalls
    /\ openFilterColumn' = Null
    /\ lastOp' = "sortZtoA"
    /\ lastArg' = Null
    /\ UNCHANGED cell
    /\ UNCHANGED selectedItems
    /\ UNCHANGED <<parameters, props, columnFilters, tempFilterOperator, tempFilterValue,
                   columnWidths, resizeVars, displayRecordIds, effectPending>>
    /\ document' = ListenerEffect(document, resizingColumn, resizingColumn')

(* the callback of setTimeout(() => onSort(column.name), 100) (534) *)
TimerFire ==
    /\ ~effectPending
    /\ timers # <<>>
    /\ Apply(onSort(St, Head(timers)))
    /\ timers' = Tail(timers)
    /\ lastOp' = "timer"
    /\ lastArg' = Null
    /\ UNCHANGED cell
    /\ UNCHANGED selectedItems
    /\ UNCHANGED <<parameters, props, compVars, displayRecordIds, effectPending>>
    /\ document' = ListenerEffect(document, resizingColumn, resizingColumn')

\* handleResizeStart starting every session from the default width
HandleResizeStartDefaultWidth(c, startX) ==
    /\ Interactive
    /\ c \in Range(props.columns)
    /\ resizingColumn' = c
    /\ resizeStartX' = startX
    /\ resizeStartWidth' = 150
    /\ lastOp' = "resizeStart"
    /\ lastArg' = startX
    /\ UNCHANGED cell
    /\ UNCHANGED selectedItems
    /\ calls' = NoCalls
    /\ UNCHANGED <<hostVars, this, props, columnFilters, popupVars, columnWidths,
                   displayRecordIds, effectPending, timers>>
    /\ document' = ListenerEffect(document, resizingColumn, resizingColumn')

(* handleResizeStart (274-280), from the resize handle's onMouseDown *)
HandleResizeStart(c, startX) ==
    /\ Interactive
    /\ c \in Range(props.columns)
    /\ resizingColumn' = c
    /\ resizeStartX' = startX
    /\ resizeStartWidth' = IF MapHas(columnWidths, c) THEN columnWidths[c] ELSE 150
    /\ lastOp' = "resizeStart"
    /\ lastArg' = startX
    /\ UNCHANGED cell
    /\ UNCHANGED selectedItems
    /\ calls' = NoCalls
    /\ UNCHANGED <<hostVars, this, props, columnFilters, popupVars, columnWidths,
                   displayRecordIds, effectPending, timers>>
    /\ document' = ListenerEffect(document, resizingColumn, resizingColumn')

\* handleResizeMove without the Math.max(80, ...) clamp
HandleResizeMoveUnclamped(clientX) ==
    /\ Interactive
    /\ resizingColumn # Null
    /\ LET deltaX == clientX - resizeStartX
           newWidth == resizeStartWidth + deltaX
       IN  /\ newWidth <= MaxWidth
           /\ columnWidths' = MapSet(columnWidths, resizingColumn, newWidth)
    /\ lastOp' = "resizeMove"
    /\ lastArg' = clientX
    /\ UNCHANGED cell
    /\ UNCHANGED selectedItems
    /\ calls' = NoCalls
    /\ UNCHANGED <<hostVars, this, props, columnFilters, popupVars, resizeVars,
                   displayRecordIds, effectPending, timers>>
    /\ document' = ListenerEffect(document, resizingColumn, resizingColumn')

(* handleResizeMove (283-291), the document's mousemove listener *)
HandleResizeMove(clientX) ==
    /\ Interactive
    /\ resizingColumn # Null
    /\ LET deltaX == clientX - resizeStartX
           newWidth == Max(80, resizeStartWidth + deltaX)
       IN  /\ newWidth <= MaxWidth
           /\ columnWidths' = MapSet(columnWidths, resizingColumn, newWidth)
    /\ lastOp' = "resizeMove"
    /\ lastArg' = clientX
    /\ UNCHANGED cell
    /\ UNCHANGED selectedItems
    /\ calls' = NoCalls
    /\ UNCHANGED <<hostVars, this, props, columnFilters, popupVars, resizeVars,
                   displayRecordIds, effectPending, timers>>
    /\ document' = ListenerEffect(document, resizingColumn, resizingColumn')

(* handleResizeEnd (294-299), the document's mouseup listener *)
HandleResizeEnd ==
    /\ Interactive
    /\ resizingColumn # Null
    /\ resizingColumn' = Null
    /\ lastOp' = "resizeEnd"
    /\ lastArg' = Null
    /\ UNCHANGED cell
    /\ UNCHANGED selectedItems
    /\ calls' = NoCalls
    /\ UNCHANGED <<hostVars, this, props, columnFilters, popupVars, columnWidths,
                   resizeStartX, resizeStartWidth, displayRecordIds, effectPending, timers>>
    /\ document' = ListenerEffect(document, resizingColumn, resizingColumn')

\* Set.prototype.has / add / delete on a Set kept in insertion order
SetHas(q, x) == x \in Range(q)
SetAdd(q, x) == IF SetHas(q, x) THEN q ELSE Append(q, x)
SetDelete(q, x) == SelectSeq(q, LAMBDA y : y # x)

RECURSIVE SetAddAll(_, _)
SetAddAll(q, xs) == IF xs = <<>> THEN q ELSE SetAddAll(SetAdd(q, Head(xs)), Tail(xs))

\* String(i) of a row index
IndexString(i) == <<"0", "1", "2", "3", "4", "5", "6", "7", "8", "9", "10">>[i + 1]

\* useTableSelection (366-384), toggleRow: in single mode the item replaces the
\* selection, in multiselect mode its membership is flipped
toggleItem(mode, selected, itemId) ==
    IF mode = "single" THEN <<itemId>>
    ELSE IF SetHas(selected, itemId) THEN SetDelete(selected, itemId)
    ELSE SetAdd(selected, itemId)

\* useTableSelection (366-384), toggleAllRows in multiselect mode: clears when
\* every item id is selected, else adds them all
toggleAllItems(selected, itemIds) ==
    IF \A i \in 1..Len(itemIds) : SetHas(selected, itemIds[i])
    THEN <<>>
    ELSE SetAddAll(selected, itemIds)

\* the row ids of the table features: no getRowId is passed (366-370), so a
\* row's id is its index in tableRows
RowIds(rows) == [i \in 1..Len(rows) |-> IndexString(i - 1)]

(* a click or Space on a row (386-401): toggleRow(e, row.item.recordId), whose *)
(* onSelectionChange (369-381) calls the control's onSelectionChange          *)
ToggleRow(id) ==
    /\ Interactive
    /\ id \in Range(displayRecordIds)
    /\ LET mode == IF props.selectionMode = Null THEN "single" ELSE props.selectionMode
           next == toggleItem(mode, selectedItems, id)
       IN  /\ selectedItems' = next
           /\ Apply(onSelectionChange(St, next))
    /\ lastOp' = "toggleRow"
    /\ lastArg' = id
    /\ UNCHANGED cell
    /\ UNCHANGED <<parameters, props, compVars, displayRecordIds, effectPending, timers>>
    /\ document' = ListenerEffect(document, resizingColumn, resizingColumn')

(* a click on the header selection cell (423-437), shown in multiselect mode *)
ToggleAllRows ==
    /\ Interactive
    /\ props.selectionMode = "multiselect"
    /\ LET next == toggleAllItems(selectedItems, RowIds(displayRecordIds))
       IN  /\ selectedItems' = next
           /\ Apply(onSelectionChange(St, next))
    /\ lastOp' = "toggleAllRows"
    /\ lastArg' = Null
    /\ UNCHANGED cell
    /\ UNCHANGED <<parameters, props, compVars, displayRecordIds, effectPending, timers>>
    /\ document' = ListenerEffect(document, resizingColumn, resizingColumn')

(* a click on the link of a row's first cell (685-697); the first column of  *)
(* the hosts explored here is "Name", which is never drawn as a status badge *)
LinkClick(id) ==
    /\ Interactive
    /\ props.isLink
    /\ props.columns # <<>> /\ props.columns[1] = "Name"
    /\ id \in Range(displayRecordIds)
    /\ Apply(onLinkClick(St, id))
    /\ lastOp' = "linkClick"
    /\ lastArg' = id
    /\ UNCHANGED cell
    /\ UNCHANGED <<parameters, props, compVars, displayRecordIds, effectPending, timers,
                   selectedItems>>
    /\ document' = ListenerEffect(document, resizingColumn, resizingColumn')

(***************************************************************************)
(* The control as a whole.                                                 *)
(***************************************************************************)
Directions      == {"next", "previous", "first", "last"}
FilterOperators == {"Contains", "Equals", "Starts with", "Ends with", "Does not contain"}

\* An environment: the values the host may put into the dataset and the
\* parameters.
EnvSort ==
    [columns |-> HostColumns, data |-> {DataTwo},
     totals |-> {15}, next |-> {TRUE}, refresh |-> BOOLEAN,
     modes |-> {1}, links |-> {FALSE}]

EnvNav ==
    [columns |-> {<<"Name", "Status">>}, data |-> {DataNone, DataTwo},
     totals |-> {-1, 15}, next |-> BOOLEAN, refresh |-> {FALSE},
     modes |-> {1}, links |-> {FALSE}]

EnvSmall ==
    [columns |-> {<<"Name">>}, data |-> {DataTwo, DataMissing},
     totals |-> {15}, next |-> {TRUE}, refresh |-> BOOLEAN,
     modes |-> {1}, links |-> {FALSE}]

EnvSelect ==
    [columns |-> {<<"Name">>}, data |-> {DataTwo, DataNone},
     totals |-> {15}, next |-> {FALSE}, refresh |-> BOOLEAN,
     modes |-> {0, 1, 2}, links |-> BOOLEAN]

EnvResize ==
    [columns |-> {<<"Name", "Status">>}, data |-> {DataTwo},
     totals |-> {15}, next |-> {FALSE}, refresh |-> BOOLEAN,
     modes |-> {1}, links |-> {FALSE}]

\* pointer positions of the resize sessions
ResizeXs == {0, 60, 100}

EnvFilter ==
    [columns |-> {<<"Name", "Status">>}, data |-> {DataTwo},
     totals |-> {15}, next |-> {FALSE}, refresh |-> BOOLEAN,
     modes |-> {1}, links |-> {FALSE}]

\* texts typed into the popup: empty, blank, padded and plain
FilterValues == {<<>>, <<" ">>, <<" ", "a">>, <<"a", " ">>, <<"b">>}

SortActions ==
    \/ \E c \in ColumnNames : HandleOpenFilter(c)
    \/ ClosePopup
    \/ \E c \in ColumnNames : SortAtoZ(c)
    \/ \E c \in ColumnNames : SortZtoA(c)
    \/ TimerFire

NavActions == \E direction \in Directions : Navigate(direction)

\* refresh against local view state: one filter, one width, one sort
Init == InitOver(EnvSmall)

Next ==
    \/ HostChange(EnvSmall)
    \/ UpdateView
    \/ RefreshEffect
    \/ Navigate("next")
    \/ \E c \in ColumnNames : HandleOpenFilter(c)
    \/ \E c \in ColumnNames : SortAtoZ(c)
    \/ SetTempFilterValue(<<"a">>)
    \/ HandleApplyFilter
    \/ HandleClearFilter
    \/ \E c \in ColumnNames : HandleResizeStart(c, 0)
    \/ HandleResizeMove(100)
    \/ HandleResizeEnd

Spec == Init /\ [][Next]_vars

\* sort cycling against a host whose column set changes and that refreshes
InitSort == InitOver(EnvSort)

NextSort ==
    \/ HostChange(EnvSort)
    \/ UpdateView
    \/ RefreshEffect
    \/ Navigate("next")
    \/ SortActions

SpecSort == InitSort /\ [][NextSort]_vars

\* the filter popup next to a page cursor, widths, a resize session and a
\* selection
EnvFrame ==
    [columns |-> {<<"Name", "Status">>}, data |-> {DataTwo},
     totals |-> {15}, next |-> BOOLEAN, refresh |-> {FALSE},
     modes |-> {1}, links |-> {FALSE}]

InitFrame == InitOver(EnvFrame)

NextFrame ==
    \/ HostChange(EnvFrame)
    \/ UpdateView
    \/ RefreshEffect
    \/ Navigate("next")
    \/ \E c \in ColumnNames : HandleOpenFilter(c)
    \/ \E v \in {<<"a">>, <<"b">>} : SetTempFilterValue(v)
    \/ HandleApplyFilter
    \/ HandleClearFilter
    \/ HandleResizeStart("Name", 0)
    \/ HandleResizeMove(100)
    \/ ToggleRow("r1")

SpecFrame == InitFrame /\ [][NextFrame]_vars

\* navigation against a host with known and unknown totals
InitNav == InitOver(EnvNav)

NextNav ==
    \/ HostChange(EnvNav)
    \/ UpdateView
    \/ RefreshEffect
    \/ NavActions

SpecNav == InitNav /\ [][NextNav]_vars

\* row selection and link clicks in the three selection modes
InitSelect == InitOver(EnvSelect)

NextSelect ==
    \/ HostChange(EnvSelect)
    \/ UpdateView
    \/ RefreshEffect
    \/ \E id \in {"r1", "r2"} : ToggleRow(id)
    \/ ToggleAllRows
    \/ \E id \in {"r1", "r2"} : LinkClick(id)

SpecSelect == InitSelect /\ [][NextSelect]_vars

\* resize sessions with positive and negative deltas, and refreshes
InitResize == InitOver(EnvResize)

NextResize ==
    \/ HostChange(EnvResize)
    \/ UpdateView
    \/ RefreshEffect
    \/ \E c \in ColumnNames, x \in ResizeXs : HandleResizeStart(c, x)
    \/ \E x \in ResizeXs : HandleResizeMove(x)
    \/ HandleResizeEnd
    \/ Destroy

SpecResize == InitResize /\ [][NextResize]_vars

\* the filter popup with blank and padded values, and refreshes
InitFilter == InitOver(EnvFilter)

NextFilter ==
    \/ HostChange(EnvFilter)
    \/ UpdateView
    \/ RefreshEffect
    \/ \E c \in ColumnNames : HandleOpenFilter(c)
    \/ ClosePopup
    \/ \E op \in {"Contains", "Equals"} : SetTempFilterOperator(op)
    \/ \E v \in FilterValues : SetTempFilterValue(v)
    \/ HandleApplyFilter
    \/ HandleClearFilter

SpecFilter == InitFilter /\ [][NextFilter]_vars

(***************************************************************************)
(* The view-window derivation on its own: the first render of a component  *)
(* mounted with arbitrary props and filters computes displayRecordIds.     *)
(***************************************************************************)
ViewPages == 1..(MaxPage + 2)

IdOf(i) == <<"r1", "r2", "r3", "r4", "r5", "r6">>[i]
ViewIds == {IdOf(i) : i \in 1..MaxIds}

\* the sequences of distinct ids
ViewIdSeqs ==
    UNION {{q \in [1..n -> ViewIds] : \A i, j \in 1..n : i # j => q[i] # q[j]} : n \in 0..MaxIds}

\* r1 takes every combination of present and missing values, r2 is fixed,
\* every other id has no record; one store has no record for r1 either
ViewR1Records ==
    UNION {[cs -> {<<"a">>, <<"A", "b">>, <<"b">>}] : cs \in {{"Name", "Status"}, {"Name"}}}
        \cup {[c \in {"Status"} |-> <<>>], <<>>}
ViewStores ==
    {[id \in {"r1", "r2"} |-> IF id = "r1" THEN rec ELSE RecordR2] : rec \in ViewR1Records}
        \cup {[id \in {"r2"} |-> RecordR2]}

ViewOperators == FilterOperators \cup {"Between"}
ViewNameFilters ==
    {[columnName |-> "Name", operator |-> op, value |-> v] :
        op \in ViewOperators, v \in {<<"a">>, <<"B">>, <<"a", "b">>}}
ViewStatusFilters ==
    {[columnName |-> "Status", operator |-> op, value |-> <<"A">>] :
        op \in {"Equals", "Does not contain"}}
ViewFilters ==
    {<<>>}
        \cup {[c \in {"Name"} |-> f] : f \in ViewNameFilters}
        \cup {[c \in {"Status"} |-> g] : g \in ViewStatusFilters}
        \cup {[c \in {"Name", "Status"} |-> IF c = "Name" THEN f ELSE g] :
                  f \in ViewNameFilters, g \in ViewStatusFilters}

InitView ==
    /\ \E ids \in ViewIdSeqs, store \in ViewStores, page \in ViewPages, size \in 1..MaxPageSize :
          props = [NoProps EXCEPT !.sortedRecordIds = ids, !.records = store,
                                  !.currentPage = page, !.recordsPerPage = size]
    /\ columnFilters \in ViewFilters
    /\ dataset = [columns |-> <<"Name", "Status">>, records |-> <<>>,
                  sortedRecordIds |-> <<>>, sorting |-> <<>>,
                  paging |-> [hasNextPage |-> FALSE, totalResultCount |-> 0]]
    /\ parameters = [isTableRefresh |-> FALSE, SelectionMode |-> 1, isLink |-> FALSE]
    /\ this = InitThis
    /\ openFilterColumn = Null
    /\ tempFilterOperator = "Contains"
    /\ tempFilterValue = <<>>
    /\ columnWidths = <<>>
    /\ resizingColumn = Null
    /\ resizeStartX = 0
    /\ resizeStartWidth = 0
    /\ displayRecordIds = <<>>
    /\ effectPending = FALSE
    /\ timers = <<>>
    /\ calls = NoCalls
    /\ lastOp = "init"
    /\ lastArg = Null
    /\ document = NoListeners
    /\ cell = NoCell
    /\ selectedItems = <<>>

(* the render of CustomTable evaluates the displayRecordIds memo (174-236) *)
RenderRows ==
    /\ lastOp = "init"
    /\ displayRecordIds' = DisplayOf(props, columnFilters)
    /\ lastOp' = "render"
    /\ lastArg' = Null
    /\ UNCHANGED cell
    /\ UNCHANGED selectedItems
    /\ UNCHANGED <<hostVars, this, props, compVars, effectPending, timers, calls>>
    /\ document' = ListenerEffect(document, resizingColumn, resizingColumn')

NextView == RenderRows

SpecView == InitView /\ [][NextView]_vars

(***************************************************************************)
(* Properties of the view-window derivation (checked under SpecView).      *)
(***************************************************************************)
\* t occurs somewhere in s
IsSubstring(s, t) == \E i, j \in 0..Len(s) : i <= j /\ SubSeq(s, i + 1, j) = t
IsPrefix(s, t) == Len(t) <= Len(s) /\ SubSeq(s, 1, Len(t)) = t
IsSuffix(s, t) == Len(t) <= Len(s) /\ SubSeq(s, Len(s) - Len(t) + 1, Len(s)) = t

\* the lower-cased text of a cell, empty when the record has no value
CellText(record, c) == toLowerCase(IF c \in DOMAIN record THEN record[c] ELSE <<>>)

\* the record passes the filter on column c
Passes(filter, c, record) ==
    LET text == CellText(record, c)
        want == toLowerCase(filter.value)
    IN  IF filter.operator = "Equals" THEN text = want
        ELSE IF filter.operator = "Starts with" THEN IsPrefix(text, want)
        ELSE IF filter.operator = "Ends with" THEN IsSuffix(text, want)
        ELSE IF filter.operator = "Does not contain" THEN ~IsSubstring(text, want)
        ELSE IsSubstring(text, want)

PassesEvery(filters, record) == \A c \in DOMAIN filters : Passes(filters[c], c, record)

Occurs(x, q) == \E i \in 1..Len(q) : q[i] = x

Rendered == lastOp = "render"

\* C1: a record of the record store is retained by the filtering step iff it
\* passes every active filter, each filter comparing the lower-cased cell text
\* with the lower-cased filter value by its operator (unknown operators as
\* Contains); the rows displayed all pass every filter.
C1_FilterIsConjunction ==
    Rendered =>
        LET filtered == FilteredIds(props.sortedRecordIds, props.records, columnFilters)
        IN  /\ \A i \in 1..Len(props.sortedRecordIds) :
                  LET id == props.sortedRecordIds[i]
                  IN  id \in DOMAIN props.records =>
                         (Occurs(id, filtered) <=> PassesEvery(columnFilters, props.records[id]))
            /\ \A k \in 1..Len(displayRecordIds) :
                  displayRecordIds[k] \in DOMAIN props.records =>
                      PassesEvery(columnFilters, props.records[displayRecordIds[k]])

\* two filters are active, 'Does not contain' among them; r1 is displayed and r2 is filtered out
C1_Witness ==
    /\ Rendered
    /\ DOMAIN columnFilters = {"Name", "Status"}
    /\ columnFilters["Status"].operator = "Does not contain"
    /\ Occurs("r1", displayRecordIds)
    /\ Occurs("r2", props.sortedRecordIds)
    /\ ~Occurs("r2", FilteredIds(props.sortedRecordIds, props.records, columnFilters))

\* d is obtained from q by deleting elements
IsSubsequence(d, q) ==
    \E f \in [1..Len(d) -> 1..Len(q)] :
        /\ \A i \in 1..Len(d) : q[f[i]] = d[i]
        /\ \A i, j \in 1..Len(d) : i < j => f[i] < f[j]

\* C2: the displayed window is a subsequence of sortedRecordIds in the same
\* relative order, and shows no id twice.
C2_StableSubsequence ==
    Rendered =>
        /\ IsSubsequence(displayRecordIds, props.sortedRecordIds)
        /\ \A i, j \in 1..Len(displayRecordIds) :
               i # j => displayRecordIds[i] # displayRecordIds[j]

\* a filter dropped an id and at least two ids are displayed
C2_Witness ==
    /\ Rendered
    /\ columnFilters # <<>>
    /\ Len(displayRecordIds) >= 2
    /\ Len(props.sortedRecordIds) > Len(displayRecordIds)

RECURSIVE ConcatPages(_, _, _, _, _)
\* the windows of pages 1..n, one after the other
ConcatPages(ids, records, filters, size, n) ==
    IF n = 0 THEN <<>>
    ELSE ConcatPages(ids, records, filters, size, n - 1)
            \o DisplayRecordIds(ids, records, filters, n, size)

\* C3: the window has at most pageSize ids and is the slice
\* [(p-1)*s, (p-1)*s+s) of the filtered sequence, empty past its end; the
\* windows of pages 1..ceil(len/s) concatenate to the filtered sequence.
C3_PageWindows ==
    Rendered =>
        LET filtered == FilteredIds(props.sortedRecordIds, props.records, columnFilters)
            s     == props.recordsPerPage
            start == (props.currentPage - 1) * s
            count == Max(0, Min(s, Len(filtered) - start))
        IN  /\ Len(displayRecordIds) <= s
            /\ displayRecordIds = [i \in 1..count |-> filtered[start + i]]
            /\ ConcatPages(props.sortedRecordIds, props.records, columnFilters, s,
                           Ceil(Len(filtered), s)) = filtered

\* a partial last page: page 2 of three ids, two per page
C3_Witness ==
    /\ Rendered
    /\ props.currentPage = 2
    /\ props.recordsPerPage = 2
    /\ Len(FilteredIds(props.sortedRecordIds, props.records, columnFilters)) = 3
    /\ Len(displayRecordIds) = 1

(***************************************************************************)
(* Properties of the sort-state cycler (checked under SpecSort).           *)
(***************************************************************************)
SortState(t) == <<t.currentSortColumn, t.currentSortDirection>>

\* the step is a handler that issues exactly one onSort request, on column c
OneSortRequest(c) ==
    \/ lastOp' = "timer" /\ timers # <<>> /\ c = Head(timers)
    \/ /\ lastOp' = "sortZtoA"
       /\ c = openFilterColumn
       /\ (props.sortColumn = c /\ props.sortDirection = 1) \/ props.sortColumn # c
    \/ /\ lastOp' = "sortAtoZ"
       /\ c = openFilterColumn
       /\ props.sortColumn = c /\ props.sortDirection = 1

\* the cycler's transition table for a request on column c
SortTable(c) ==
    IF this.currentSortColumn # c THEN SortState(this') = <<c, 1>>
    ELSE IF this.currentSortDirection = 1 THEN SortState(this') = <<c, -1>>
    ELSE IF this.currentSortDirection = -1 THEN SortState(this') = <<Null, 0>>
    ELSE TRUE

\* C4: every onSort(c) request follows the transition table: another or no
\* column sorted -> (c, Ascending); (c, Ascending) -> (c, Descending);
\* (c, Descending) -> (null, None); and three requests on one column from
\* an unsorted state end in (null, None).
C4_SortTransitionTable ==
    /\ [][\A c \in ColumnNames : OneSortRequest(c) => SortTable(c)]_vars
    /\ [](this.currentSortColumn = Null =>
             \A c \in ColumnNames :
                 SortState(onSort(onSort(onSort(St, c), c), c).this) = <<Null, 0>>)

\* a single request has taken a descending column to (null, None)
C4_Witness ==
    /\ lastOp \in {"timer", "sortZtoA"}
    /\ SortState(this) = <<Null, 0>>

\* C5: from every reachable state in which no other column is sorted, three
\* consecutive onSort requests on a column return the sort state to exactly
\* the state before them.
C5_SortCyclePeriodThree ==
    \A c \in ColumnNames :
        this.currentSortColumn \in {Null, c} =>
            SortState(onSort(onSort(onSort(St, c), c), c).this) = SortState(this)

\* C6: the sort column is null iff the sort direction is None (0).
C6_SortColumnNullIffNone ==
    (this.currentSortColumn = Null) <=> (this.currentSortDirection = 0)

\* the step is a sort handler that changes the sort state
SortChange ==
    /\ lastOp' \in {"timer", "sortAtoZ", "sortZtoA"}
    /\ SortState(this') # SortState(this)

\* C7: every onSort request that changes the sort state leaves currentPage
\* at 1, has reset the host paging and has requested a dataset refresh.
C7_SortResetsPage ==
    [][SortChange =>
          /\ this'.currentPage = 1
          /\ calls'.reset >= 1
          /\ calls'.refresh >= 1]_vars

(***************************************************************************)
(* Properties of the table refresh (checked under Spec).                   *)
(***************************************************************************)
\* the render just committed comes from the updateView call that ran the
\* refresh branch: sort column, page cursor and selection are cleared
RefreshRendered ==
    /\ lastOp = "updateView"
    /\ calls.refresh = 1
    /\ effectPending
    /\ props.isTableRefresh

\* C8: a refresh clears filters, widths, resize session and sort state in one
\* transition: no rendered state has the sort column, page and selection
\* cleared while filters, widths or resize session keep their old values.
C8_RefreshIsAtomic ==
    RefreshRendered =>
        /\ columnFilters = <<>>
        /\ columnWidths = <<>>
        /\ resizingColumn = Null

\* isTableRefresh goes from false to true at this updateView call
RefreshEdge == parameters.isTableRefresh /\ ~this.previousRefreshValue

\* C9: the reset happens exactly on the updateView calls where isTableRefresh
\* goes from false to true: the control resets selection, link record, page,
\* sort and refreshes the dataset, and the mounted component is made to clear
\* filters, widths and resize session, on those calls and on no other.
C9_RefreshIsEdgeTriggered ==
    /\ [][lastOp' = "updateView" =>
             /\ (calls'.refresh = 1) <=> RefreshEdge
             /\ this.root => ((effectPending' /\ props'.isTableRefresh) <=> RefreshEdge)
             /\ ~RefreshEdge =>
                   /\ SortState(this') = SortState(this)
                   /\ this'.currentPage = this.currentPage
                   /\ this'.selectedRecordObjects = this.selectedRecordObjects
                   /\ this'.selectedLinkRecords = this.selectedLinkRecords]_vars
    /\ [][lastOp' = "refreshEffect" /\ ~(effectPending /\ props.isTableRefresh) =>
             UNCHANGED compVars]_vars

(***************************************************************************)
(* Properties of the navigation (checked under SpecNav).                   *)
(***************************************************************************)
\* the step is a navigation request beyond the available pages
BeyondPages ==
    \/ lastOp' = "next" /\ ~dataset.paging.hasNextPage
    \/ lastOp' = "previous" /\ this.currentPage = 1
    \/ lastOp' = "first" /\ this.currentPage = 1
    \/ lastOp' = "last" /\ ~dataset.paging.hasNextPage

\* C10: a navigation request beyond the available pages leaves currentPage
\* unchanged and issues no host paging call.
C10_NavigationBeyondPagesIsNoOp ==
    [][BeyondPages =>
          /\ this'.currentPage = this.currentPage
          /\ calls' = NoCalls]_vars

\* total record counts against which a navigation result is compared
OtherTotals == {0, 15, 25}

\* C11: currentPage moves only on navigation requests (any other handler
\* leaves it or resets it to 1), and the page a navigation request leaves
\* does not depend on totalRecordCount: the same request with any other
\* total ends on the same page.
C11_PageNotDerivedFromTotal ==
    [][/\ lastOp' \notin Directions => this'.currentPage \in {this.currentPage, 1}
       /\ lastOp' \in Directions =>
              \A n \in OtherTotals, pagesAhead \in PagesAhead :
                  onNavigate([St EXCEPT !.this.totalRecordCount = n],
                             lastOp', pagesAhead).this.currentPage
                      = this'.currentPage]_vars

(***************************************************************************)
(* Properties of selection and link clicks (checked under SpecSelect).     *)
(***************************************************************************)
\* the step is a row click or key press handled by the selection widget
RowToggle == lastOp' \in {"toggleRow", "toggleAllRows"}

\* C12: while the rendered selection mode is none (selectionMode undefined),
\* no row click or key press reports a selection change to the host, and
\* an empty selected-records output stays empty.
C12_SelectionNoneIsDisabled ==
    [][props.selectionMode = Null /\ RowToggle =>
          /\ calls'.notifyOutputChanged = 0
          /\ this'.selectedRecordIds = this.selectedRecordIds
          /\ getOutputs(this).SelectedRecordIds = <<>>
                 => getOutputs(this').SelectedRecordIds = <<>>]_vars

\* the ids of q that have a record in json, in the order of q
KnownIds(q, json) ==
    SelectSeq(q, LAMBDA id : \E k \in 1..Len(json) : json[k].recordId = id)

\* C13: on every selection-change event the stored ids are exactly the ids
\* the widget reports, the exported records are the records of those ids
\* and of no other, in the reported order, and notifyOutputChanged is
\* called exactly once.
C13_SelectionReplacedWholesale ==
    [][RowToggle =>
          LET json == IF this.recordsToJson = <<>> THEN <<>> ELSE this.recordsToJson[1]
              objs == this'.selectedRecordObjects
          IN  /\ this'.selectedRecordIds = selectedItems'
              /\ [i \in 1..Len(objs) |-> objs[i].recordId] = KnownIds(selectedItems', json)
              /\ \A i \in 1..Len(objs) : objs[i] \in Range(json)
              /\ calls'.notifyOutputChanged = 1]_vars

\* a click on r1 in multiselect mode has taken r1 out of the selection r1, r2
C13_Witness ==
    /\ lastOp = "toggleRow"
    /\ lastArg = "r1"
    /\ this.selectedRecordIds = <<"r2">>
    /\ Len(this.selectedRecordObjects) = 1

\* ids a link click may carry: the rendered ids and one that is never served
LinkIds == {"r1", "r2", "r9"}

\* the exported records (recordsToJson), empty before the first updateView
ExportedRecords(t) == IF t.recordsToJson = <<>> THEN <<>> ELSE t.recordsToJson[1]

\* C14: the exported link-record list never has more than one element; a
\* link click on a record of the current record list makes it the singleton
\* of that record and notifies the host once; a click on an unknown id
\* changes nothing and notifies nobody.
C14_LinkRecordIsSingleton ==
    /\ [](Len(getOutputs(this).SelectedLinkRecords) <= 1)
    /\ [][lastOp' = "linkClick" =>
             \E k \in 1..Len(ExportedRecords(this)) :
                 /\ ExportedRecords(this)[k].recordId = lastArg'
                 /\ this'.selectedLinkRecords = <<ExportedRecords(this)[k]>>
                 /\ calls'.notifyOutputChanged = 1]_vars
    /\ [](\A id \in LinkIds :
             (\A k \in 1..Len(ExportedRecords(this)) : ExportedRecords(this)[k].recordId # id)
                 => onLinkClick(St, id) = St)

\* a link click on r2 has left the singleton of r2
C14_Witness ==
    /\ lastOp = "linkClick"
    /\ lastArg = "r2"
    /\ Len(this.selectedLinkRecords) = 1
    /\ this.selectedLinkRecords[1].recordId = "r2"
    /\ calls.notifyOutputChanged = 1

(***************************************************************************)
(* Properties of the column resize (checked under SpecResize).             *)
(***************************************************************************)
\* C15: every width stored in the column width map is at least 80.
C15_WidthsAtLeast80 ==
    \A c \in DOMAIN columnWidths : columnWidths[c] >= 80

\* a pointer-move whose delta would take the width below 80 has stored 80
C15_Witness ==
    /\ lastOp = "resizeMove"
    /\ resizingColumn # Null
    /\ resizeStartWidth + (lastArg - resizeStartX) < 80
    /\ columnWidths[resizingColumn] = 80

\* the width column c has on screen: its entry, or the default 150
WidthOf(widths, c) == IF c \in DOMAIN widths THEN widths[c] ELSE 150

\* C16: pointer-down on c at x0 starts a session with w0 = the width of c
\* (150 without an entry); every pointer-move at x sets width[c] to
\* max(80, w0 + (x - x0)), relative to the session start, and leaves the
\* other widths alone; pointer-up ends the session and keeps the widths.
C16_ResizeRelativeToSessionStart ==
    [][/\ lastOp' = "resizeStart" =>
              /\ resizeStartX' = lastArg'
              /\ resizeStartWidth' = WidthOf(columnWidths, resizingColumn')
              /\ columnWidths' = columnWidths
       /\ lastOp' = "resizeMove" =>
              LET want == resizeStartWidth + (lastArg' - resizeStartX)
              IN  /\ DOMAIN columnWidths' = DOMAIN columnWidths \cup {resizingColumn}
                  /\ columnWidths'[resizingColumn] = IF want < 80 THEN 80 ELSE want
                  /\ \A d \in DOMAIN columnWidths \ {resizingColumn} :
                         columnWidths'[d] = columnWidths[d]
                  /\ UNCHANGED resizeVars
       /\ lastOp' = "resizeEnd" =>
              /\ resizingColumn # Null /\ resizingColumn' = Null
              /\ columnWidths' = columnWidths]_vars

\* a session that started from a stored width other than the default has
\* moved left of its start and stays above the minimum
C16_Witness ==
    /\ lastOp = "resizeMove"
    /\ resizingColumn # Null
    /\ resizeStartWidth # 150
    /\ lastArg < resizeStartX
    /\ columnWidths[resizingColumn] = resizeStartWidth + (lastArg - resizeStartX)
    /\ columnWidths[resizingColumn] > 80

(***************************************************************************)
(* Properties of the filter popup (checked under SpecFilter).              *)
(***************************************************************************)
\* C17: every stored filter has a non-empty value without leading or
\* trailing whitespace and is keyed by its own columnName (the mapping holds
\* one filter per key).
C17_StoredFiltersAreTrimmed ==
    \A c \in DOMAIN columnFilters :
        LET f == columnFilters[c]
        IN  /\ f.columnName = c
            /\ f.value # <<>>
            /\ f.value[1] # " "
            /\ f.value[Len(f.value)] # " "

\* a value typed with trailing whitespace has been applied and stored trimmed
C17_Witness ==
    /\ lastOp = "applyFilter"
    /\ tempFilterValue = <<"a", " ">>
    /\ lastArg \in DOMAIN columnFilters
    /\ columnFilters[lastArg].value = <<"a">>

\* the text is empty or consists of whitespace only
IsBlank(s) == \A i \in 1..Len(s) : s[i] = " "

\* C18: Apply with an empty or whitespace-only value leaves the filter
\* mapping as it was and closes the popup.
C18_BlankApplyIsIgnored ==
    [][lastOp' = "applyFilter" /\ IsBlank(tempFilterValue) =>
          /\ columnFilters' = columnFilters
          /\ openFilterColumn' = Null]_vars

\* a blank value has been applied on a column that has a filter
C18_Witness ==
    /\ lastOp = "applyFilter"
    /\ tempFilterValue = <<" ">>
    /\ lastArg \in DOMAIN columnFilters
    /\ openFilterColumn = Null

C20_MissingRecordNeverThrows ==
    [][lastOp' = "updateView" =>
          /\ this'.root
          /\ props'.sortedRecordIds = dataset'.sortedRecordIds
          /\ this'.recordsToJson # <<>>
          /\ Len(ExportedRecords(this')) = Len(dataset'.sortedRecordIds)]_vars

(***************************************************************************)
(* Status badges: statusUtils.ts and the body cell of CustomTable.tsx.      *)
(* An icon is written as a token naming its glyph.                         *)
(***************************************************************************)
\* a StatusStyle is a record with its icon; the glyph of each token:
\* bolt U+26A1, check U+2713, circle U+25CB, cross U+2717, cycle U+27F3, dot U+25CF, down U+2B07, eye U+1F441
\* gear U+2699, half U+25D0, hourglass U+23F3, info U+2139, memo U+1F4DD, new U+1F195, outbox U+1F4E4, package U+1F4E6
\* pause U+23F8, red U+1F534, return U+21A9, right U+27A1, unlocked U+1F513, up U+2B06, warning U+26A0
StatusEntry(key, icon) == [key |-> key, style |-> [icon |-> icon]]

generalStatus ==
    << StatusEntry(<<"A", "c", "t", "i", "v", "e">>, "check"),
       StatusEntry(<<"I", "n", "a", "c", "t", "i", "v", "e">>, "circle"),
       StatusEntry(<<"E", "n", "a", "b", "l", "e", "d">>, "check"),
       StatusEntry(<<"D", "i", "s", "a", "b", "l", "e", "d">>, "cross"),
       StatusEntry(<<"O", "n", "l", "i", "n", "e">>, "dot"),
       StatusEntry(<<"O", "f", "f", "l", "i", "n", "e">>, "circle") >>

operationStatus ==
    << StatusEntry(<<"S", "u", "c", "c", "e", "s", "s">>, "check"),
       StatusEntry(<<"F", "a", "i", "l", "e", "d">>, "cross"),
       StatusEntry(<<"E", "r", "r", "o", "r">>, "warning"),
       StatusEntry(<<"W", "a", "r", "n", "i", "n", "g">>, "warning"),
       StatusEntry(<<"I", "n", "f", "o">>, "info") >>

progressStatus ==
    << StatusEntry(<<"N", "o", "t", " ", "S", "t", "a", "r", "t", "e", "d">>, "circle"),
       StatusEntry(<<"I", "n", " ", "P", "r", "o", "g", "r", "e", "s", "s">>, "cycle"),
       StatusEntry(<<"P", "e", "n", "d", "i", "n", "g">>, "pause"),
       StatusEntry(<<"C", "o", "m", "p", "l", "e", "t", "e", "d">>, "check"),
       StatusEntry(<<"O", "n", " ", "H", "o", "l", "d">>, "pause"),
       StatusEntry(<<"C", "a", "n", "c", "e", "l", "l", "e", "d">>, "cross"),
       StatusEntry(<<"P", "a", "u", "s", "e", "d">>, "pause") >>

approvalStatus ==
    << StatusEntry(<<"A", "p", "p", "r", "o", "v", "e", "d">>, "check"),
       StatusEntry(<<"R", "e", "j", "e", "c", "t", "e", "d">>, "cross"),
       StatusEntry(<<"U", "n", "d", "e", "r", " ", "R", "e", "v", "i", "e", "w">>, "eye"),
       StatusEntry(<<"D", "r", "a", "f", "t">>, "memo"),
       StatusEntry(<<"S", "u", "b", "m", "i", "t", "t", "e", "d">>, "outbox"),
       StatusEntry(<<"P", "e", "n", "d", "i", "n", "g", " ", "A", "p", "p", "r", "o", "v", "a", "l">>, "hourglass") >>

priorityStatus ==
    << StatusEntry(<<"C", "r", "i", "t", "i", "c", "a", "l">>, "red"),
       StatusEntry(<<"H", "i", "g", "h">>, "up"),
       StatusEntry(<<"M", "e", "d", "i", "u", "m">>, "right"),
       StatusEntry(<<"L", "o", "w">>, "down"),
       StatusEntry(<<"U", "r", "g", "e", "n", "t">>, "bolt") >>

paymentStatus ==
    << StatusEntry(<<"P", "a", "i", "d">>, "check"),
       StatusEntry(<<"U", "n", "p", "a", "i", "d">>, "cross"),
       StatusEntry(<<"P", "e", "n", "d", "i", "n", "g">>, "hourglass"),
       StatusEntry(<<"O", "v", "e", "r", "d", "u", "e">>, "warning"),
       StatusEntry(<<"R", "e", "f", "u", "n", "d", "e", "d">>, "return"),
       StatusEntry(<<"P", "a", "r", "t", "i", "a", "l">>, "half") >>

orderStatus ==
    << StatusEntry(<<"N", "e", "w">>, "new"),
       StatusEntry(<<"P", "r", "o", "c", "e", "s", "s", "i", "n", "g">>, "gear"),
       StatusEntry(<<"S", "h", "i", "p", "p", "e", "d">>, "package"),
       StatusEntry(<<"D", "e", "l", "i", "v", "e", "r", "e", "d">>, "check"),
       StatusEntry(<<"R", "e", "t", "u", "r", "n", "e", "d">>, "return"),
       StatusEntry(<<"C", "a", "n", "c", "e", "l", "l", "e", "d">>, "cross") >>

membershipStatus ==
    << StatusEntry(<<"T", "r", "i", "a", "l">>, "unlocked"),
       StatusEntry(<<"A", "c", "t", "i", "v", "e">>, "check"),
       StatusEntry(<<"E", "x", "p", "i", "r", "e", "d">>, "cross"),
       StatusEntry(<<"S", "u", "s", "p", "e", "n", "d", "e", "d">>, "pause"),
       StatusEntry(<<"C", "a", "n", "c", "e", "l", "l", "e", "d">>, "circle") >>

\* Object.values(STATUS_DEFINITIONS) walks the categories in this order
STATUS_DEFINITIONS ==
    << [name |-> "generalStatus", entries |-> generalStatus],
       [name |-> "operationStatus", entries |-> operationStatus],
       [name |-> "progressStatus", entries |-> progressStatus],
       [name |-> "approvalStatus", entries |-> approvalStatus],
       [name |-> "priorityStatus", entries |-> priorityStatus],
       [name |-> "paymentStatus", entries |-> paymentStatus],
       [name |-> "orderStatus", entries |-> orderStatus],
       [name |-> "membershipStatus", entries |-> membershipStatus] >>

\* every category is an object literal, so a property read on it also finds
\* the members of Object.prototype, and each of them is truthy
ObjectPrototypeKeys ==
    { <<"c", "o", "n", "s", "t", "r", "u", "c", "t", "o", "r">>,
      <<"h", "a", "s", "O", "w", "n", "P", "r", "o", "p", "e", "r", "t", "y">>,
      <<"i", "s", "P", "r", "o", "t", "o", "t", "y", "p", "e", "O", "f">>,
      <<"p", "r", "o", "p", "e", "r", "t", "y", "I", "s", "E", "n", "u", "m", "e", "r", "a", "b", "l", "e">>,
      <<"t", "o", "L", "o", "c", "a", "l", "e", "S", "t", "r", "i", "n", "g">>,
      <<"t", "o", "S", "t", "r", "i", "n", "g">>,
      <<"v", "a", "l", "u", "e", "O", "f">>,
      <<"_", "_", "p", "r", "o", "t", "o", "_", "_">>,
      <<"_", "_", "d", "e", "f", "i", "n", "e", "G", "e", "t", "t", "e", "r", "_", "_">>,
      <<"_", "_", "d", "e", "f", "i", "n", "e", "S", "e", "t", "t", "e", "r", "_", "_">>,
      <<"_", "_", "l", "o", "o", "k", "u", "p", "G", "e", "t", "t", "e", "r", "_", "_">>,
      <<"_", "_", "l", "o", "o", "k", "u", "p", "S", "e", "t", "t", "e", "r", "_", "_">> }

\* category[key]: the own entry, else a member inherited from Object.prototype,
\* else undefined; <<>> stands for undefined or null, <<style>> for an object
CategoryGet(category, key) ==
    LET own == {j \in 1..Len(category) : category[j].key = key}
    IN  IF own # {} THEN <<category[CHOOSE j \in own : TRUE].style>>
        ELSE IF key \in ObjectPrototypeKeys THEN <<[icon |-> "undefined"]>>
        ELSE <<>>

\* the loop over the categories of getStatusStyle, from category i on
RECURSIVE CategoryLoop(_, _)
CategoryLoop(i, normalizedValue) ==
    IF i > Len(STATUS_DEFINITIONS) THEN <<>>
    ELSE LET category == STATUS_DEFINITIONS[i].entries
             exact    == CategoryGet(category, normalizedValue)
             found    == {j \in 1..Len(category) :
                             toLowerCase(category[j].key) = toLowerCase(normalizedValue)}
         IN  IF exact # <<>> THEN exact
             ELSE IF found # {}
                  THEN <<category[CHOOSE j \in found : \A k \in found : j <= k].style>>
             ELSE CategoryLoop(i + 1, normalizedValue)

\* getStatusStyle: null for an empty or missing value, else the style of the
\* first category that lists the trimmed value, exactly or ignoring case
getStatusStyle(statusValue) ==
    IF statusValue = Undefined \/ statusValue = <<>> THEN <<>>
    ELSE CategoryLoop(1, trim(statusValue))

statusKeywords ==
    << <<"s", "t", "a", "t", "u", "s">>,
       <<"s", "t", "a", "t", "e">>,
       <<"s", "t", "a", "g", "e">>,
       <<"p", "r", "i", "o", "r", "i", "t", "y">>,
       <<"a", "p", "p", "r", "o", "v", "a", "l">>,
       <<"p", "r", "o", "g", "r", "e", "s", "s">>,
       <<"c", "o", "n", "d", "i", "t", "i", "o", "n">> >>

\* isStatusColumn: the lower-cased column name contains one of the keywords
isStatusColumn(columnName) ==
    IF columnName = <<>> THEN FALSE
    ELSE LET normalizedName == toLowerCase(columnName)
         IN  \E k \in 1..Len(statusKeywords) : includes(normalizedName, statusKeywords[k])

\* the cell value of the HighlightIndicator column is the empty string (659-661)
CellValueOf(columnName, formatted) ==
    IF columnName = <<"H", "i", "g", "h", "l", "i", "g", "h", "t", "I", "n", "d", "i", "c", "a", "t", "o", "r">> THEN <<>> ELSE formatted

\* the body cell (655-686): a badge with the icon of the style when the column
\* is a status column and the value has a style (<<icon>>), else no badge (<<>>)
StatusBadge(columnName, cellValue) ==
    LET isStatus    == isStatusColumn(columnName)
        statusStyle == IF isStatus THEN getStatusStyle(cellValue) ELSE <<>>
    IN  IF isStatus /\ statusStyle # <<>> THEN <<statusStyle[1].icon>> ELSE <<>>

\* column names a dataset can carry
CellColumnNames ==
    { <<"S", "t", "a", "t", "u", "s">>,
      <<"P", "a", "y", "m", "e", "n", "t", " ", "S", "t", "a", "t", "e">>,
      <<"O", "r", "d", "e", "r", "S", "t", "a", "t", "u", "s">>,
      <<"o", "r", "d", "e", "r", "S", "T", "A", "T", "U", "S">>,
      <<"M", "e", "m", "b", "e", "r", "s", "h", "i", "p", " ", "s", "t", "a", "t", "u", "s">>,
      <<"S", "t", "a", "g", "e">>,
      <<"P", "r", "i", "o", "r", "i", "t", "y">>,
      <<"A", "p", "p", "r", "o", "v", "a", "l">>,
      <<"P", "r", "o", "g", "r", "e", "s", "s">>,
      <<"C", "o", "n", "d", "i", "t", "i", "o", "n">>,
      <<"E", "s", "t", "a", "t", "e">>,
      <<"D", "e", "s", "c", "r", "i", "p", "t", "i", "o", "n">>,
      <<"N", "a", "m", "e">>,
      <<"H", "i", "g", "h", "l", "i", "g", "h", "t", "I", "n", "d", "i", "c", "a", "t", "o", "r">>,
      <<>> }

\* the keys of every category
StatusKeys ==
    UNION {{STATUS_DEFINITIONS[i].entries[j].key : j \in 1..Len(STATUS_DEFINITIONS[i].entries)} :
              i \in 1..Len(STATUS_DEFINITIONS)}

\* formatted values a record can return: the listed values, their lower-cased
\* forms, padded and unlisted text, and undefined for a column without value
CellValues ==
    StatusKeys \cup {toLowerCase(key) : key \in StatusKeys} \cup {Undefined} \cup
    { <<"C", "A", "N", "C", "E", "L", "L", "E", "D">>,
      <<" ", "P", "a", "i", "d", " ">>,
      <<"p", "e", "n", "d", "i", "n", "g", " ">>,
      <<"U", "n", "k", "n", "o", "w", "n">>,
      <<"S", "h", "i", "p">>,
      <<" ">>,
      <<>>,
      <<"c", "o", "n", "s", "t", "r", "u", "c", "t", "o", "r">>,
      <<"t", "o", "S", "t", "r", "i", "n", "g">> }

\* one body cell of a rendered row, before its render
InitStatus ==
    /\ dataset = [columns |-> <<"Name", "Status">>, records |-> <<>>,
                  sortedRecordIds |-> <<>>, sorting |-> <<>>,
                  paging |-> [hasNextPage |-> FALSE, totalResultCount |-> 0]]
    /\ parameters = [isTableRefresh |-> FALSE, SelectionMode |-> 1, isLink |-> FALSE]
    /\ this = InitThis
    /\ props = NoProps
    /\ InitComponent
    /\ displayRecordIds = <<>>
    /\ effectPending = FALSE
    /\ timers = <<>>
    /\ calls = NoCalls
    /\ lastOp = "init"
    /\ lastArg = Null
    /\ document = NoListeners
    /\ selectedItems = <<>>
    /\ \E columnName \in CellColumnNames, formatted \in CellValues :
          cell = [columnName |-> columnName, cellValue |-> formatted, badge |-> <<>>]

\* the render of the cell (655-686)
RenderCell ==
    /\ lastOp = "init"
    /\ LET cellValue == CellValueOf(cell.columnName, cell.cellValue)
       IN  cell' = [cell EXCEPT !.cellValue = cellValue,
                                !.badge = StatusBadge(cell.columnName, cellValue)]
    /\ lastOp' = "cell"
    /\ lastArg' = Null
    /\ UNCHANGED selectedItems
    /\ UNCHANGED <<hostVars, this, props, compVars, displayRecordIds, effectPending,
                   timers, calls>>
    /\ document' = ListenerEffect(document, resizingColumn, resizingColumn')

NextStatus == RenderCell

SpecStatus == InitStatus /\ [][NextStatus]_vars

(***************************************************************************)
(* Properties of the status badge (checked under SpecStatus).              *)
(***************************************************************************)
\* the cell has been rendered
CellRendered == lastOp = "cell"

\* C21: for every category of STATUS_DEFINITIONS and every value the category
\* lists, a cell of a status column holding that value shows the icon that
\* category gives the value, whatever other categories list the same value
\* ("Pending" of paymentStatus shows the hourglass, "Cancelled" of
\* membershipStatus shows the circle).
C21_IconOfEveryListingCategory ==
    (CellRendered /\ isStatusColumn(cell.columnName)) =>
        \A i \in 1..Len(STATUS_DEFINITIONS) :
            \A j \in 1..Len(STATUS_DEFINITIONS[i].entries) :
                STATUS_DEFINITIONS[i].entries[j].key = cell.cellValue =>
                    cell.badge = <<STATUS_DEFINITIONS[i].entries[j].style.icon>>

\* the column name contains one of the keywords, case ignored
ColumnHasKeyword(columnName) ==
    \E k \in 1..Len(statusKeywords) : IsSubstring(toLowerCase(columnName), statusKeywords[k])

\* the value, trimmed and case ignored, is a key of some category
HasStatusEntry(value) ==
    /\ value # Undefined
    /\ \E key \in StatusKeys : toLowerCase(key) = toLowerCase(trim(value))

\* C22: a cell shows a status badge only if its column name contains, case
\* ignored, one of status, state, stage, priority, approval, progress or
\* condition, and its value has an entry in the status table; a cell of a
\* column with none of the keywords shows no badge for any value; "Shipped"
\* shows the package icon in column OrderStatus and nothing in Description.
C22_BadgeOnlyForKeywordColumnAndListedValue ==
    CellRendered =>
        /\ cell.badge # <<>> => (ColumnHasKeyword(cell.columnName) /\ HasStatusEntry(cell.cellValue))
        /\ ~ColumnHasKeyword(cell.columnName) => cell.badge = <<>>
        /\ (cell.cellValue = <<"S", "h", "i", "p", "p", "e", "d">>
              /\ cell.columnName = <<"O", "r", "d", "e", "r", "S", "t", "a", "t", "u", "s">>)
               => cell.badge = <<"package">>

(***************************************************************************)
(* Properties of the resize listeners (checked under SpecResize).          *)
(***************************************************************************)
\* one mousemove and one mouseup listener on document, drag cursor on body
ListenersInstalled ==
    [mousemove |-> 1, mouseup |-> 1, cursor |-> "col-resize", userSelect |-> "none"]

\* the step ends a resize session: pointer-up, the refresh effect, or teardown
SessionEnds ==
    /\ resizingColumn # Null
    /\ \/ lastOp' = "resizeEnd"
       \/ lastOp' = "refreshEffect" /\ props.isTableRefresh
       \/ lastOp' = "destroy"

\* C23: the document-wide mousemove and mouseup listeners are registered
\* exactly while a resize session is active (one of each, with the drag cursor
\* and user-select none on body); a pointer-up during a session ends it; and
\* after a session ends by pointer-up, by a table refresh or by teardown, no
\* resize listener is registered and the body cursor and user-select are back
\* to their values before the session.
C23_ListenersExactlyWhileResizing ==
    /\ [](document = IF resizingColumn # Null THEN ListenersInstalled ELSE NoListeners)
    /\ [][SessionEnds => (resizingColumn' = Null /\ document' = NoListeners)]_vars

C23_Witness ==
    /\ lastOp = "resizeEnd"
    /\ resizingColumn = Null
    /\ columnWidths # <<>>
    /\ document = NoListeners

(***************************************************************************)
(* The page cursor against the host's paging (checked under SpecNav).      *)
(***************************************************************************)
\* C24: currentPage is 1 plus the loadNextPage calls minus the
\* loadPreviousPage calls issued since the last paging.reset(): it starts at
\* 1 with no call issued, a step that resets the host paging leaves it at 1
\* plus the loads that follow, and any other step moves it by the loads the
\* step issues, forward minus backward.
C24_PageFollowsHostPaging ==
    [][this'.currentPage =
          (IF calls'.reset > 0 THEN 1 ELSE this.currentPage)
              + calls'.loadNextPage - calls'.loadPreviousPage]_vars

(***************************************************************************)
(* The sort buttons of the popup (checked under SpecSort).                 *)
(***************************************************************************)
\* C25: a press on "Sort A to Z" in the popup of column c leaves the sort
\* state at (c, ascending), whatever the sort state before the press.
C25_SortAtoZLeavesAscending ==
    [][lastOp' = "sortAtoZ" =>
          /\ this'.currentSortColumn = openFilterColumn
          /\ this'.currentSortDirection = 1]_vars

\* C26: a press on "Sort Z to A" in the popup of a column c that is not the
\* sorted column issues onSort(c) at once and a second onSort(c) from a 100 ms
\* timer; when that timer has fired the sort state is (c, descending),
\* whatever other events (a sort on another column, a table refresh, another
\* press on a sort button) happened between the two calls.
C26_SortZtoALeavesDescending ==
    [][lastOp' = "timer" => SortState(this') = <<Head(timers), -1>>]_vars

\* what the host was asked to sort by is what the control tracks
SortingMatches(t, d) ==
    IF t.currentSortColumn = Null THEN d.sorting = <<>>
    ELSE d.sorting = <<[name |-> t.currentSortColumn,
                        sortDirection |-> t.currentSortDirection]>>

\* the step ran onSort (from a sort button or the timer) or the refresh branch
SortOrRefreshStep ==
    \/ lastOp' \in {"timer", "sortAtoZ", "sortZtoA"}
    \/ lastOp' = "updateView" /\ calls'.refresh > 0

\* C27: after every onSort call and every refresh, dataset.sorting is empty
\* when currentSortColumn is null and otherwise is the single entry
\* {name: currentSortColumn, sortDirection: currentSortDirection}, also when
\* onSort is called with a column that is not among the dataset's columns.
C27_HostSortingMatchesSortState ==
    [][SortOrRefreshStep => SortingMatches(this', dataset')]_vars

(***************************************************************************)
(* The exported selection against the widget (checked under SpecSelect).   *)
(***************************************************************************)
\* the ids of the records exported as selected
ExportedSelectedIds(t) ==
    {getOutputs(t).SelectedRecordIds[i].recordId :
        i \in 1..Len(getOutputs(t).SelectedRecordIds)}

\* C28: in every state the ids of the exported selected records are the ids
\* the widget holds as selected, restricted to the ids of the current record
\* list; so after a refresh has emptied the exported selection the widget
\* shows no row selected, and after a page change the exported records are
\* those of the rows still shown selected.
C28_ExportMatchesWidgetSelection ==
    ExportedSelectedIds(this) = Range(KnownIds(selectedItems, ExportedRecords(this)))

(***************************************************************************)
(* The frame of Apply and Clear (checked under SpecFrame).                 *)
(***************************************************************************)
\* the step is Apply or Clear in the popup of column c
ApplyOrClear(c) ==
    /\ openFilterColumn = c
    /\ lastOp' \in {"applyFilter", "clearFilter"}

\* the filter of column d is the same before and after the step
SameFilter(d) ==
    /\ MapHas(columnFilters', d) <=> MapHas(columnFilters, d)
    /\ MapHas(columnFilters, d) => columnFilters'[d] = columnFilters[d]

\* C29: Apply and Clear in the popup of column c change only the filter of c
\* and the popup state: the filters of the other columns, the column widths,
\* the resize session, the current page, the sort state and the selection
\* stay as they were, and no host call is made; the displayed window is the
\* slice of the filtered ids at the unchanged page.
C29_ApplyAndClearFrame ==
    [][\A c \in ColumnNames : ApplyOrClear(c) =>
          /\ \A d \in ColumnNames \ {c} : SameFilter(d)
          /\ columnWidths' = columnWidths
          /\ <<resizingColumn', resizeStartX', resizeStartWidth'>> = resizeVars
          /\ this' = this
          /\ props' = props
          /\ dataset' = dataset
          /\ selectedItems' = selectedItems
          /\ calls' = NoCalls
          /\ displayRecordIds' =
                ArraySlice(FilteredIds(props.sortedRecordIds, props.records, columnFilters'),
                           (props.currentPage - 1) * props.recordsPerPage,
                           props.currentPage * props.recordsPerPage)]_vars

\* Apply on Name on page 2, next to a filter on Status, a stored width, a
\* resize session and a selected row: records pass the filters and the
\* window is empty
C29_Witness ==
    /\ lastOp = "applyFilter"
    /\ lastArg = "Name"
    /\ MapHas(columnFilters, "Name")
    /\ MapHas(columnFilters, "Status")
    /\ props.currentPage = 2
    /\ this.currentPage = 2
    /\ columnWidths # <<>>
    /\ resizingColumn # Null
    /\ selectedItems # <<>>
    /\ FilteredIds(props.sortedRecordIds, props.records, columnFilters) # <<>>
    /\ displayRecordIds = <<>>

(***************************************************************************)
(* The loop of onNavigate('last') (checked under SpecNav).                 *)
(***************************************************************************)
\* C30: onNavigate('last') always returns: it calls loadNextPage at most 100
\* times, makes no other paging call and leaves currentPage set to the last
\* page, also against a host that reports hasNextPage = true for ever (then
\* after exactly 100 calls).
C30_LastAlwaysTerminates ==
    /\ [](\A pagesAhead \in PagesAhead :
             LET r == onNavigate(St, "last", pagesAhead)
             IN  /\ r.calls.loadNextPage <= 100
                 /\ (dataset.paging.hasNextPage /\ pagesAhead = -1)
                        => r.calls.loadNextPage = 100
                 /\ r.this.currentPage = totalPages(this))
    /\ [][lastOp' = "last" =>
             /\ calls'.loadNextPage <= 100
             /\ calls'.loadPreviousPage = 0 /\ calls'.reset = 0
             /\ this'.currentPage = totalPages(this)]_vars

\* 'last' has returned after 100 calls, the host still reporting a next page
C30_Witness ==
    /\ lastOp = "last"
    /\ calls.loadNextPage = 100
    /\ dataset.paging.hasNextPage
    /\ this.currentPage = totalPages(this)

====
